---- MODULE Spec2Model ----
(***************************************************************************)
(* Authorization engine of open-hims (src/src/modules/authorization):      *)
(* request-context validation, emergency override, policy evaluation,      *)
(* relationship resolution over the relation store with its TTL cache,     *)
(* and the audit sink.                                                     *)
(*                                                                         *)
(* Time.  A DateTime<Utc> is an integer number of minutes counted from a   *)
(* Monday 00:00; hour and weekday are derived from it by arithmetic.  The  *)
(* database clock (NOW(), CURRENT_TIMESTAMP) and Instant::now() are the    *)
(* variable now, in seconds.  Option<T> is a sequence of length at most 1. *)
(***************************************************************************)
EXTENDS Integers, Sequences, FiniteSets, TLC

VARIABLES
    config,      \* AuthorizationConfig + AuditConfig.enabled, fixed at construction
    policies,    \* HimsPolicyEngine.policies : Vec<HealthcarePolicy>
    store,       \* rows of table authorization_relations, in insertion order
    cache,       \* HimsAuthorizationEngine.relation_cache : key -> (subjects, cached_at)
    auditLog,    \* rows of table authorization_audit_log
    now,         \* the clock
    last,        \* the operation that returned last: its inputs and its result
    expanding,   \* calls of expand suspended between the store read and update_cache
    readAt       \* for each cache key, when the cached list was read from the store

vars == <<config, policies, store, cache, auditLog, now, last, expanding, readAt>>

---------------------------------------------------------------------------
(* Bounds of the model *)

MaxTime == 2
MaxRows == 2
MaxAudit == 1
MaxPolicies == 2
MaxStartDepth == 2
MaxExpanding == 1
\* stand-ins for cache_ttl_seconds (300) and max_cache_size (1000), scaled to
\* the model's clock and key space
CacheTtl == 1
MaxCacheSize == 2

None == <<>>
Some(x) == <<x>>
IsSome(o) == Len(o) > 0
Unwrap(o) == o[1]

---------------------------------------------------------------------------
(* relations.rs : Subject, Resource, HealthcareRelation *)

UuidStrings == {"uuid-u1", "uuid-u2", "uuid-p1", "uuid-b1", "uuid-a1"}

\* Uuid::parse_str succeeds exactly on well-formed UUID strings
UuidParseOk(s) == s \in UuidStrings

User(id) == [kind |-> "user", id |-> id]
Role(name) == [kind |-> "role", id |-> name]
Patient(id) == [kind |-> "patient", id |-> id]
Billing(id) == [kind |-> "billing", id |-> id]
Appointment(id) == [kind |-> "appointment", id |-> id]
SystemConfig(name) == [kind |-> "system_config", id |-> name]

U1 == User("uuid-u1")
U2 == User("uuid-u2")
P1 == Patient("uuid-p1")
B1 == Billing("uuid-b1")
A1 == Appointment("uuid-a1")

Rel(tag) == [tag |-> tag, name |-> ""]
CustomRel(name) == [tag |-> "Custom", name |-> name]

\* impl Display for HealthcareRelation
RelationToString(r) ==
    CASE r.tag = "PrimaryPhysician" -> "primary_physician"
      [] r.tag = "ConsultingPhysician" -> "consulting_physician"
      [] r.tag = "AttendingNurse" -> "attending_nurse"
      [] r.tag = "CareTeamMember" -> "care_team_member"
      [] r.tag = "DepartmentHead" -> "department_head"
      [] r.tag = "DepartmentMember" -> "department_member"
      [] r.tag = "HospitalAdmin" -> "hospital_admin"
      [] r.tag = "TreatingPhysician" -> "treating_physician"
      [] r.tag = "SupervisingPhysician" -> "supervising_physician"
      [] r.tag = "BillingAccess" -> "billing_access"
      [] r.tag = "Custom" -> r.name

\* PostgresAuthorizationStorage::resource_to_parts / subject_to_parts
ResourceToParts(res) == <<res.kind, res.id>>
SubjectToParts(sub) == <<sub.kind, sub.id>>

\* PostgresAuthorizationStorage::parts_to_subject, on the columns of a stored row
PartsToSubject(ns, id) == [kind |-> ns, id |-> id]
PartsToResource(ns, id) == [kind |-> ns, id |-> id]

---------------------------------------------------------------------------
(* healthcare_context.rs : RequestContext and its derived predicates *)

\* UrgencyLevel derives Ord in declaration order
UrgencyValue(u) ==
    CASE u = "Routine" -> 0 [] u = "Urgent" -> 1 [] u = "Emergency" -> 2 [] u = "Critical" -> 3

Hour(ts) == (ts \div 60) % 24
MinuteOfDay(ts) == ts % (24 * 60)
WeekdayIndex(ts) == (ts \div (24 * 60)) % 7

\* Weekday::to_string() of chrono: the three-letter names
WeekdayToString(ts) == <<"Mon", "Tue", "Wed", "Thu", "Fri", "Sat", "Sun">>[WeekdayIndex(ts) + 1]

\* RequestContext::is_emergency
IsEmergency(ctx) == IF IsSome(ctx.emergency) THEN Unwrap(ctx.emergency).is_emergency ELSE FALSE

\* RequestContext::get_urgency_level
GetUrgencyLevel(ctx) == IF IsSome(ctx.clinical) THEN Unwrap(ctx.clinical).urgency_level ELSE "Routine"

\* RequestContext::is_remote_access
IsRemoteAccess(ctx) == IF IsSome(ctx.location) THEN Unwrap(ctx.location).is_remote ELSE FALSE

\* RequestContext::is_after_hours
IsAfterHours(ctx) == Hour(ctx.timestamp) < 8 \/ Hour(ctx.timestamp) > 18

\* RequestContext::is_weekend
IsWeekend(ctx) == WeekdayToString(ctx.timestamp) \in {"Sat", "Sun"}

\* RequestContext::get_security_level
GetSecurityLevel(ctx) ==
    IF IsSome(ctx.location)
    THEN LET l == Unwrap(ctx.location) IN
         IF IsSome(l.connection_info) THEN Unwrap(l.connection_info)
         ELSE IF l.is_remote THEN "Medium" ELSE "High"
    ELSE "Low"

\* RequestContext::validate : Ok is "", Err(msg) is msg
\* a validate that accepts every context
ValidateAccepting(ctx) == ""

Validate(ctx) ==
    LET e == Unwrap(ctx.emergency) IN
    IF IsSome(ctx.emergency) /\ e.is_emergency /\ ~IsSome(e.justification)
    THEN "Emergency access requires justification"
    ELSE IF IsSome(ctx.emergency) /\ e.approval_required /\ ~IsSome(e.approved_by)
    THEN "Emergency access requires approval"
    ELSE IF IsSome(ctx.emergency) /\ IsSome(e.expires_at) /\ Unwrap(e.expires_at) <= ctx.timestamp
    THEN "Emergency access has expired"
    ELSE IF IsSome(ctx.clinical) /\ Unwrap(ctx.clinical).urgency_level = "Critical" /\ ~IsEmergency(ctx)
    THEN "Critical urgency level requires emergency context"
    ELSE ""

---------------------------------------------------------------------------
(* policies.rs : conditions, effects, HimsPolicyEngine *)

Cond(kind) == [kind |-> kind, start |-> "", end |-> "", list |-> <<>>, level |-> ""]
TimeOfDay(s, e) == [kind |-> "TimeOfDay", start |-> s, end |-> e, list |-> <<>>, level |-> ""]
DayOfWeek(days) == [kind |-> "DayOfWeek", start |-> "", end |-> "", list |-> days, level |-> ""]
UrgencyLevelCond(l) == [kind |-> "UrgencyLevel", start |-> "", end |-> "", list |-> <<>>, level |-> l]
MinimumSecurityLevel(l) == [kind |-> "MinimumSecurityLevel", start |-> "", end |-> "", list |-> <<>>, level |-> l]
RequireLocation(ids) == [kind |-> "RequireLocation", start |-> "", end |-> "", list |-> ids, level |-> ""]

Effect(kind) == [kind |-> kind, seconds |-> 0, list |-> <<>>, conditions |-> <<>>]
TimeLimit(s) == [kind |-> "TimeLimit", seconds |-> s, list |-> <<>>, conditions |-> <<>>]
Restrict(l) == [kind |-> "Restrict", seconds |-> 0, list |-> l, conditions |-> <<>>]
Conditional(cs) == [kind |-> "Conditional", seconds |-> 0, list |-> <<>>, conditions |-> cs]

\* NaiveTime::parse_from_str(s, "%H:%M"): minutes of the day, or -1 for Err
ParseHM(s) ==
    CASE s = "08:00" -> 8 * 60
      [] s = "18:00" -> 18 * 60
      [] OTHER -> -1

\* HimsPolicyEngine::security_level_value
SecurityLevelValue(l) ==
    CASE l = "Low" -> 1 [] l = "Medium" -> 2 [] l = "High" -> 3 [] l = "Maximum" -> 4

InSeq(x, s) == \E i \in 1..Len(s) : s[i] = x

B(b) == IF b THEN "true" ELSE "false"

\* a default arm that fails closed
UnimplementedConditionClosed == "false"

\* the arm of HimsPolicyEngine::evaluate_condition for conditions it does not model
UnimplementedCondition == "true"

\* HimsPolicyEngine::evaluate_condition : "true", "false" or "error" (Err)
EvaluateCondition(c, ctx) ==
    CASE c.kind = "TimeOfDay" ->
            IF ParseHM(c.start) < 0 \/ ParseHM(c.end) < 0 THEN "error"
            ELSE B(MinuteOfDay(ctx.timestamp) >= ParseHM(c.start)
                   /\ MinuteOfDay(ctx.timestamp) <= ParseHM(c.end))
      [] c.kind = "DayOfWeek" -> B(InSeq(WeekdayToString(ctx.timestamp), c.list))
      [] c.kind = "AfterHours" -> B(IsAfterHours(ctx))
      [] c.kind = "Weekend" -> B(IsWeekend(ctx))
      [] c.kind = "EmergencyDeclared" -> B(IsEmergency(ctx))
      [] c.kind = "UrgencyLevel" -> B(UrgencyValue(GetUrgencyLevel(ctx)) >= UrgencyValue(c.level))
      [] c.kind = "RemoteAccess" -> B(IsRemoteAccess(ctx))
      [] c.kind = "SecureConnection" -> B(GetSecurityLevel(ctx) \in {"High", "Maximum"})
      [] c.kind = "MinimumSecurityLevel" ->
            B(SecurityLevelValue(GetSecurityLevel(ctx)) >= SecurityLevelValue(c.level))
      [] c.kind = "RequireLocation" ->
            IF IsSome(ctx.location) THEN B(InSeq(Unwrap(ctx.location).hospital_id, c.list))
            ELSE "false"
      [] c.kind = "AuditTrailRequired" -> B(Len(ctx.audit_trail) > 0)
      [] c.kind = "ReasonRequired" ->
            IF IsSome(ctx.emergency) THEN B(IsSome(Unwrap(ctx.emergency).justification))
            ELSE "false"
      [] c.kind = "PatientRelated" ->
            IF IsSome(ctx.clinical) THEN B(IsSome(Unwrap(ctx.clinical).patient_id))
            ELSE "false"
      [] c.kind = "PatientConsent" -> B(IsEmergency(ctx))
      [] c.kind = "BreakGlassActivated" ->
            IF IsSome(ctx.emergency)
            THEN B(Unwrap(ctx.emergency).emergency_type = Some("BreakGlass"))
            ELSE "false"
      [] OTHER -> UnimplementedCondition

\* the loop over policy.conditions in evaluate_policies: stops at the first
\* condition that is false, fails at the first that is Err
\* "if !evaluate_condition(..)? { all_conditions_met = false; break; }"
\* a loop that looks at the first condition alone
AndThenFirst(r, rest) == r

AndThen(r, rest) == IF r = "true" THEN rest ELSE r
RECURSIVE AllConditionsMet(_, _, _)
AllConditionsMet(conds, ctx, i) ==
    IF i > Len(conds) THEN "true"
    ELSE AndThen(EvaluateCondition(conds[i], ctx), AllConditionsMet(conds, ctx, i + 1))

Msg(text, arg) == [text |-> text, arg |-> arg]

\* the Conditional arm of evaluate_policies: one requirement per sub-condition
\* that does not hold; ConditionError for Err
ConditionError == <<Msg("error", "")>>
\* "if !evaluate_condition(..)? { requirements.push(..) }"
Unmet(r, condition, rest) ==
    IF r = "error" \/ rest = ConditionError THEN ConditionError
    ELSE IF r = "false" THEN <<Msg("Condition not met: {:?}", condition.kind)>> \o rest
    ELSE rest
RECURSIVE UnmetConditions(_, _, _)
UnmetConditions(conds, ctx, i) ==
    IF i > Len(conds) THEN <<>>
    ELSE Unmet(EvaluateCondition(conds[i], ctx), conds[i],
               UnmetConditions(conds, ctx, i + 1))

\* a comparator that sorts by ascending priority
EffectBeforeAscending(a, b) == a[3] < b[3]

\* the comparator of sorted_effects.sort_by in combine_effects:
\* TRUE when a must be placed before b
EffectBefore(a, b) == a[3] > b[3]

\* Vec::sort_by is a stable sort: x, which stood before every element of s,
\* goes before the first element that the comparator does not place before x
RECURSIVE InsertSorted(_, _)
InsertSorted(x, s) ==
    IF s = <<>> THEN <<x>>
    ELSE IF ~EffectBefore(s[1], x) THEN <<x>> \o s
    ELSE <<s[1]>> \o InsertSorted(x, Tail(s))

RECURSIVE SortEffects(_)
SortEffects(s) ==
    IF s = <<>> THEN <<>>
    ELSE InsertSorted(s[1], SortEffects(Tail(s)))

\* a fail-open default effect
NoPolicyEffectOpen == Effect("Allow")

\* the effect returned when no policy applies (PolicyEffect::Deny)
NoPolicyEffect == Effect("Deny")

\* HimsPolicyEngine::combine_effects
CombineEffects(effects) ==
    LET sorted_effects == SortEffects(effects) IN
    IF Len(sorted_effects) > 0 THEN sorted_effects[1][1] ELSE Effect("Deny")

\* PolicyDecision; error is TRUE for Err(_)
EmptyDecision ==
    [error |-> FALSE, applied_policies |-> <<>>, effects |-> <<>>, reasons |-> <<>>,
     requirements |-> <<>>, restrictions |-> <<>>, time_limit |-> None]

\* the body of "if all_conditions_met": unmet holds the requirements of a
\* Conditional effect
PushPolicy(acc, policy, unmet) ==
    IF unmet = ConditionError THEN [acc EXCEPT !.error = TRUE]
    ELSE [acc EXCEPT
            !.applied_policies = Append(@, policy.id),
            !.effects = Append(@, <<policy.effect, policy.name, policy.priority>>),
            !.reasons = Append(@, Msg("Policy '{}' applied", policy.name)),
            !.requirements =
                CASE policy.effect.kind = "RequireApproval" ->
                        Append(@, Msg("Secondary approval required", ""))
                  [] policy.effect.kind = "RequireSecondFactor" ->
                        Append(@, Msg("Multi-factor authentication required", ""))
                  [] policy.effect.kind = "Conditional" -> @ \o unmet
                  [] OTHER -> @,
            !.time_limit = IF policy.effect.kind = "TimeLimit"
                           THEN Some(policy.effect.seconds) ELSE @,
            !.restrictions = IF policy.effect.kind = "Restrict"
                             THEN @ \o policy.effect.list ELSE @]

ApplyIfMet(acc, policy, ctx, met) ==
    IF met = "error" THEN [acc EXCEPT !.error = TRUE]
    ELSE IF met = "false" THEN acc
    ELSE PushPolicy(acc, policy,
                    IF policy.effect.kind = "Conditional"
                    THEN UnmetConditions(policy.effect.conditions, ctx, 1)
                    ELSE <<>>)

\* one iteration of "for policy in &self.policies" in evaluate_policies
ApplyPolicy(acc, policy, ctx) ==
    IF acc.error \/ ~policy.is_active THEN acc
    ELSE ApplyIfMet(acc, policy, ctx, AllConditionsMet(policy.conditions, ctx, 1))

RECURSIVE FoldPolicies(_, _, _, _)
FoldPolicies(acc, pols, ctx, i) ==
    IF i > Len(pols) THEN acc
    ELSE FoldPolicies(ApplyPolicy(acc, pols[i], ctx), pols, ctx, i + 1)

\* the PolicyDecision that evaluate_policies builds from its accumulators;
\* confidence in tenths
PolicyDecision(acc) ==
    [error |-> acc.error,
     decision |-> IF acc.effects = <<>> THEN NoPolicyEffect ELSE CombineEffects(acc.effects),
     applied_policies |-> acc.applied_policies,
     reasons |-> acc.reasons,
     requirements |-> acc.requirements,
     confidence |-> IF acc.applied_policies # <<>> THEN 9 ELSE 1,
     restrictions |-> acc.restrictions,
     time_limit |-> acc.time_limit]

\* an evaluation that leaves out every policy unless a user asks to read
EvaluatePoliciesOfReaders(pols, subject, action, resource, ctx) ==
    IF subject.kind = "user" /\ action = "Read"
    THEN PolicyDecision(FoldPolicies(EmptyDecision, pols, ctx, 1))
    ELSE PolicyDecision(EmptyDecision)

\* HimsPolicyEngine::evaluate_policies(_subject, _action, _resource, context)
EvaluatePolicies(pols, subject, action, resource, ctx) ==
    PolicyDecision(FoldPolicies(EmptyDecision, pols, ctx, 1))

---------------------------------------------------------------------------
(* storage.rs, authorization_sql.rs : table authorization_relations.       *)
(* A row is inserted active and keeps its place in the table: the order of *)
(* the rows stands for created_at, and the queries that ORDER BY created_at*)
(* DESC return the rows in reverse insertion order.                        *)
(* A storage result is [err, value]: err is "" for Ok.                     *)

Tuple(object, relation, subject, expires_at) ==
    [object |-> object, relation |-> relation, subject |-> subject, expires_at |-> expires_at]

Ok(v) == [err |-> "", value |-> v]
Err(e) == [err |-> e, value |-> FALSE]

\* the WHERE clause shared by REMOVE_RELATIONSHIP and CHECK_RELATIONSHIP:
\* resource_type = $1 AND resource_id = $2 AND relation = $3
\* AND subject_type = $4 AND subject_id = $5
RowMatches(row, object, relation, subject) ==
    /\ row.resource_type = ResourceToParts(object)[1]
    /\ row.resource_id = ResourceToParts(object)[2]
    /\ row.relation = RelationToString(relation)
    /\ row.subject_type = SubjectToParts(subject)[1]
    /\ row.subject_id = SubjectToParts(subject)[2]

\* a filter that reads is_active and ignores expires_at
RowLiveIgnoringExpiry(row, t) == row.is_active

\* is_active = true AND (expires_at IS NULL OR expires_at > CURRENT_TIMESTAMP)
RowLive(row, t) ==
    row.is_active /\ (row.expires_at = None \/ Unwrap(row.expires_at) > t)

\* PostgresAuthorizationStorage::store_relationship with INSERT_RELATIONSHIP
StoreRelationship(st, t, tuple) ==
    IF ~UuidParseOk(tuple.object.id) \/ ~UuidParseOk(tuple.subject.id) THEN Err("Uuid")
    ELSE Ok(Append(st, [resource_type |-> ResourceToParts(tuple.object)[1],
                        resource_id |-> ResourceToParts(tuple.object)[2],
                        relation |-> RelationToString(tuple.relation),
                        subject_type |-> SubjectToParts(tuple.subject)[1],
                        subject_id |-> SubjectToParts(tuple.subject)[2],
                        expires_at |-> tuple.expires_at,
                        is_active |-> TRUE]))

\* PostgresAuthorizationStorage::remove_relationship with REMOVE_RELATIONSHIP
\* a removal that deletes the matching rows
RemoveRelationshipDeleting(st, tuple) ==
    IF ~UuidParseOk(tuple.object.id) \/ ~UuidParseOk(tuple.subject.id) THEN Err("Uuid")
    ELSE Ok(SelectSeq(st, LAMBDA row :
                ~(RowMatches(row, tuple.object, tuple.relation, tuple.subject) /\ row.is_active)))

RemoveRelationship(st, tuple) ==
    IF ~UuidParseOk(tuple.object.id) \/ ~UuidParseOk(tuple.subject.id) THEN Err("Uuid")
    ELSE Ok([i \in 1..Len(st) |->
                IF RowMatches(st[i], tuple.object, tuple.relation, tuple.subject) /\ st[i].is_active
                THEN [st[i] EXCEPT !.is_active = FALSE]
                ELSE st[i]])

\* PostgresAuthorizationStorage::has_relationship with CHECK_RELATIONSHIP
StorageHasRelationship(st, t, object, relation, subject) ==
    IF ~UuidParseOk(object.id) \/ ~UuidParseOk(subject.id) THEN Err("Uuid")
    ELSE Ok(\E i \in 1..Len(st) :
                RowMatches(st[i], object, relation, subject) /\ RowLive(st[i], t))

\* the indexes i..1 of the rows that keep marks, latest row first
RECURSIVE SelectDesc(_, _)
SelectDesc(keep, i) ==
    IF i = 0 THEN <<>>
    ELSE IF keep[i] THEN <<i>> \o SelectDesc(keep, i - 1)
    ELSE SelectDesc(keep, i - 1)

\* PostgresAuthorizationStorage::find_direct_relationships
\* with FIND_RELATIONSHIPS_FOR_RESOURCE
FindDirectRelationships(st, t, object, relation) ==
    IF ~UuidParseOk(object.id) THEN Err("Uuid")
    ELSE LET keep == [i \in 1..Len(st) |->
                         /\ st[i].resource_type = ResourceToParts(object)[1]
                         /\ st[i].resource_id = ResourceToParts(object)[2]
                         /\ st[i].relation = RelationToString(relation)
                         /\ RowLive(st[i], t)]
             rows == SelectDesc(keep, Len(st)) IN
         Ok([k \in 1..Len(rows) |->
                PartsToSubject(st[rows[k]].subject_type, st[rows[k]].subject_id)])

\* PostgresAuthorizationStorage::get_relationships_for_subject (no ORDER BY:
\* the rows in table order)
GetRelationshipsForSubject(st, t, subject) ==
    IF ~UuidParseOk(subject.id) THEN Err("Uuid")
    ELSE LET keep == [i \in 1..Len(st) |->
                         /\ st[i].subject_type = SubjectToParts(subject)[1]
                         /\ st[i].subject_id = SubjectToParts(subject)[2]
                         /\ RowLive(st[i], t)]
             desc == SelectDesc(keep, Len(st))
             rows == [k \in 1..Len(desc) |-> st[desc[Len(desc) + 1 - k]]] IN
         Ok([k \in 1..Len(rows) |->
                [object |-> PartsToResource(rows[k].resource_type, rows[k].resource_id),
                 relation |-> rows[k].relation,
                 subject |-> PartsToSubject(rows[k].subject_type, rows[k].subject_id),
                 expires_at |-> rows[k].expires_at]])

\* PostgresAuthorizationStorage::cleanup_expired_relationships:
\* the new table and rows_affected
CleanupExpiredRelationships(st, t) ==
    LET Hit(row) == row.expires_at # None /\ Unwrap(row.expires_at) <= t /\ row.is_active IN
    [store |-> [i \in 1..Len(st) |->
                   IF Hit(st[i]) THEN [st[i] EXCEPT !.is_active = FALSE] ELSE st[i]],
     count |-> Cardinality({i \in 1..Len(st) : Hit(st[i])})]

---------------------------------------------------------------------------
(* engine.rs : HimsAuthorizationEngine *)

\* format!("{}#{}", resource, relation)
CacheKey(resource, relation) == <<resource.kind, resource.id, RelationToString(relation)>>

\* format!("{}#{}#{}", resource, relation, subject)
VisitKey(resource, relation, subject) ==
    <<resource.kind, resource.id, RelationToString(relation), subject.kind, subject.id>>

\* a parent-relation map with a chain of two hops
GetParentRelationChained(relation) ==
    CASE relation.tag = "DepartmentHead" -> Some(Rel("DepartmentMember"))
      [] relation.tag = "ConsultingPhysician" -> Some(Rel("SupervisingPhysician"))
      [] relation.tag = "SupervisingPhysician" -> Some(Rel("TreatingPhysician"))
      [] OTHER -> None

\* HimsAuthorizationEngine::get_parent_relation
GetParentRelation(relation) ==
    CASE relation.tag = "DepartmentHead" -> Some(Rel("DepartmentMember"))
      [] relation.tag = "ConsultingPhysician" -> Some(Rel("PrimaryPhysician"))
      [] relation.tag = "SupervisingPhysician" -> Some(Rel("TreatingPhysician"))
      [] OTHER -> None

\* HimsAuthorizationEngine::check_department_membership, check_care_team_membership
CheckDepartmentMembership(resource, user_id) == FALSE
CheckCareTeamMembership(resource, user_id) == FALSE

\* HimsAuthorizationEngine::get_required_relations
GetRequiredRelations(action, resource) ==
    CASE action = "Read" /\ resource.kind = "patient" ->
            <<Rel("PrimaryPhysician"), Rel("ConsultingPhysician"),
              Rel("AttendingNurse"), Rel("CareTeamMember")>>
      [] action = "Write" /\ resource.kind = "patient" ->
            <<Rel("PrimaryPhysician"), Rel("TreatingPhysician")>>
      [] action = "Prescribe" /\ resource.kind = "patient" ->
            <<Rel("PrimaryPhysician"), Rel("ConsultingPhysician")>>
      [] action = "Schedule" /\ resource.kind = "appointment" ->
            <<Rel("PrimaryPhysician"), Rel("AttendingNurse"), Rel("DepartmentMember")>>
      [] action = "ViewBilling" /\ resource.kind = "billing" ->
            <<Rel("BillingAccess"), Rel("HospitalAdmin")>>
      [] OTHER -> <<>>

\* the cache lookup of resolve_relationships: Some(subjects) for an entry
\* younger than cache_ttl_seconds, None otherwise
CacheLookup(cfg, ch, t, resource, relation) ==
    IF cfg.enable_caching
       /\ CacheKey(resource, relation) \in DOMAIN ch
       /\ t - ch[CacheKey(resource, relation)].cached_at < cfg.cache_ttl_seconds
    THEN Some(ch[CacheKey(resource, relation)].subjects)
    ELSE None

\* a lookup that answers "no relationship" when the database fails
DirectLookupSwallowing(st, t, fault, resource, relation, subject) ==
    IF fault = "relations" /\ UuidParseOk(resource.id) /\ UuidParseOk(subject.id)
    THEN Ok(FALSE)
    ELSE StorageHasRelationship(st, t, resource, relation, subject)

\* the storage lookup made by resolve_relationships; a request whose fault is
\* "relations" stands for the database failing during relationship lookups
DirectLookup(st, t, fault, resource, relation, subject) ==
    IF fault = "relations" /\ UuidParseOk(resource.id) /\ UuidParseOk(subject.id)
    THEN Err("Database")
    ELSE StorageHasRelationship(st, t, resource, relation, subject)

\* a visited set that never reports a repeat visit
VisitedContainsNever(visited, key) == FALSE

\* visited.contains(&cache_key)
VisitedContains(visited, key) == key \in visited

\* HimsAuthorizationEngine::resolve_relationships.  res is "true", "false" or
\* the error; calls counts the storage calls made
RECURSIVE ResolveRelationships(_, _, _, _, _, _, _, _, _, _)
ResolveRelationships(cfg, st, ch, t, fault, resource, subject, relation, visited, depth) ==
    IF depth >= cfg.max_relation_depth
    THEN [res |-> "MaxDepthExceeded", visited |-> visited, calls |-> 0]
    ELSE IF VisitedContains(visited, VisitKey(resource, relation, subject))
    THEN [res |-> "CircularDependency", visited |-> visited, calls |-> 0]
    ELSE
    LET seen == visited \cup {VisitKey(resource, relation, subject)}
        cached == CacheLookup(cfg, ch, t, resource, relation)
        direct == DirectLookup(st, t, fault, resource, relation, subject)
        parent == GetParentRelation(relation)
        up == ResolveRelationships(cfg, st, ch, t, fault, resource, subject,
                                   Unwrap(parent), seen, depth + 1)
        computed ==
            CASE relation.tag = "DepartmentMember" /\ subject.kind = "user" ->
                    CheckDepartmentMembership(resource, subject.id)
              [] relation.tag = "CareTeamMember" /\ subject.kind = "user" ->
                    CheckCareTeamMembership(resource, subject.id)
              [] OTHER -> FALSE
    IN
    IF IsSome(cached)
    THEN [res |-> B(InSeq(subject, Unwrap(cached))), visited |-> seen, calls |-> 0]
    ELSE IF direct.err # "" THEN [res |-> direct.err, visited |-> seen, calls |-> 1]
    ELSE IF direct.value THEN [res |-> "true", visited |-> seen, calls |-> 1]
    ELSE IF IsSome(parent) /\ up.res # "false"
    THEN [res |-> up.res, visited |-> up.visited, calls |-> 1 + up.calls]
    ELSE [res |-> B(computed),
          visited |-> IF IsSome(parent) THEN up.visited ELSE seen,
          calls |-> 1 + (IF IsSome(parent) THEN up.calls ELSE 0)]

\* a check_emergency_access that never grants the override
CheckEmergencyAccessNever(cfg, ctx) == "false"

\* HimsAuthorizationEngine::check_emergency_access: "true", "false" or "error"
CheckEmergencyAccess(cfg, ctx) ==
    IF ~cfg.enable_emergency_access THEN "false"
    ELSE IF IsSome(ctx.emergency) /\ Unwrap(ctx.emergency).is_emergency
    THEN LET e == Unwrap(ctx.emergency) IN
         IF ~IsSome(e.justification) THEN "error"
         ELSE IF e.approval_required /\ ~IsSome(e.approved_by) THEN "error"
         ELSE IF IsSome(e.expires_at) /\ Unwrap(e.expires_at) <= ctx.timestamp THEN "error"
         ELSE "true"
    ELSE "false"

\* the loop "for relation in required_relations" of the AuditOnly arm of check:
\* found is the relation that resolved to true (None when none did), err the
\* error that ended the loop
\* a loop over the required relations without its break: the last relation
\* that resolves to true is the one found
ResolveStepLast(r, relation, rest) ==
    IF r.res \notin {"true", "false"}
    THEN [err |-> r.res, found |-> None, calls |-> r.calls, tried |-> 1]
    ELSE IF r.res = "false" \/ rest.err # "" \/ IsSome(rest.found)
    THEN [rest EXCEPT !.calls = @ + r.calls, !.tried = @ + 1]
    ELSE [err |-> "", found |-> Some(relation), calls |-> r.calls, tried |-> 1]

\* a loop over the required relations that takes an error for a non-match
ResolveStepSkipping(r, relation, rest) ==
    IF r.res = "true"
    THEN [err |-> "", found |-> Some(relation), calls |-> r.calls, tried |-> 1]
    ELSE [rest EXCEPT !.calls = @ + r.calls, !.tried = @ + 1]

ResolveStep(r, relation, rest) ==
    IF r.res = "true"
    THEN [err |-> "", found |-> Some(relation), calls |-> r.calls, tried |-> 1]
    ELSE IF r.res # "false"
    THEN [err |-> r.res, found |-> None, calls |-> r.calls, tried |-> 1]
    ELSE [rest EXCEPT !.calls = @ + r.calls, !.tried = @ + 1]

RECURSIVE ResolveRequired(_, _, _, _, _, _, _)
ResolveRequired(cfg, st, ch, t, req, relations, i) ==
    IF i > Len(relations) THEN [err |-> "", found |-> None, calls |-> 0, tried |-> 0]
    ELSE ResolveStep(ResolveRelationships(cfg, st, ch, t, req.fault, req.resource,
                                          req.subject, relations[i], {}, 0),
                     relations[i],
                     ResolveRequired(cfg, st, ch, t, req, relations, i + 1))

\* an allowed that is set for Allow alone
AllowedForAllowOnly(decision) == decision = "Allow"

\* the matches! that sets AuthorizationResponse.allowed
Allowed(decision) == decision \in {"Allow", "EmergencyAccess", "AllowWithRestrictions"}

\* what check has computed when it reaches "let response = ..." (err = "") or
\* returns early through "?" (err names the AuthError); confidence in tenths
Verdict(decision, reasons, requirements, restrictions, time_limit, confidence) ==
    [err |-> "", decision |-> decision, reasons |-> reasons, requirements |-> requirements,
     restrictions |-> restrictions, time_limit |-> time_limit, confidence |-> confidence,
     policy_evaluated |-> TRUE, resolutions |-> 0, lookups |-> 0]

Failure(e, evaluated, resolutions, lookups) ==
    [err |-> e, decision |-> "none", reasons |-> <<>>, requirements |-> <<>>,
     restrictions |-> <<>>, time_limit |-> None, confidence |-> 0,
     policy_evaluated |-> evaluated, resolutions |-> resolutions, lookups |-> lookups]

\* a match that maps every effect to Deny
ApplyEffectDenying(cfg, st, ch, t, req, pd) ==
    Verdict("Deny", pd.reasons, <<>>, <<>>, None, pd.confidence)

\* an AuditOnly arm that allows when no relation was found
RelationshipVerdictOpen(rr) ==
    IF rr.err # "" THEN Failure(rr.err, TRUE, rr.tried, rr.calls)
    ELSE [Verdict("Allow", <<Msg("No valid relationship found", "")>>, <<>>, <<>>, None, 9)
          EXCEPT !.resolutions = rr.tried, !.lookups = rr.calls]

\* the AuditOnly arm of check after its loop over the required relations
RelationshipVerdict(rr) ==
    IF rr.err # "" THEN Failure(rr.err, TRUE, rr.tried, rr.calls)
    ELSE IF IsSome(rr.found)
    THEN [Verdict("Allow",
                  <<Msg("Access granted via {} relationship",
                        RelationToString(Unwrap(rr.found)))>>,
                  <<>>, <<>>, None, 8)
          EXCEPT !.resolutions = rr.tried, !.lookups = rr.calls]
    ELSE [Verdict("Deny", <<Msg("No valid relationship found", "")>>,
                  <<>>, <<>>, None, 9)
          EXCEPT !.resolutions = rr.tried, !.lookups = rr.calls]

\* the match on policy_decision.decision in check
ApplyEffect(cfg, st, ch, t, req, pd) ==
    LET k == pd.decision.kind IN
    CASE k = "Allow" -> Verdict("Allow", pd.reasons, <<>>, <<>>, None, pd.confidence)
      [] k = "Deny" -> Verdict("Deny", pd.reasons, <<>>, <<>>, None, pd.confidence)
      [] k = "RequireApproval" ->
            Verdict("RequireApproval", <<>>, pd.requirements, <<>>, None, pd.confidence)
      [] k = "RequireSecondFactor" ->
            Verdict("RequireMFA", <<>>, <<Msg("Multi-factor authentication required", "")>>,
                    <<>>, None, pd.confidence)
      [] k = "AuditOnly" ->
            RelationshipVerdict(
                ResolveRequired(cfg, st, ch, t, req,
                                GetRequiredRelations(req.action, req.resource), 1))
      [] k = "TimeLimit" ->
            Verdict("AllowWithRestrictions", <<>>, <<>>,
                    <<Msg("Time limit: {} seconds", pd.decision.seconds)>>,
                    Some(pd.decision.seconds), pd.confidence)
      [] k = "Restrict" ->
            Verdict("AllowWithRestrictions", <<>>, <<>>,
                    [i \in 1..Len(pd.decision.list) |-> Msg(pd.decision.list[i], "")],
                    None, pd.confidence)
      [] k = "Conditional" ->
            Verdict(IF pd.requirements = <<>> THEN "Allow" ELSE "RequireApproval",
                    <<>>, pd.requirements, <<>>, None, pd.confidence)

\* the else branch of "if self.check_emergency_access(..)?", on the result
\* pd of evaluate_policies
DecideByPolicy(cfg, st, ch, t, req, pd) ==
    IF pd.error THEN Failure("PolicyEvaluation", TRUE, 0, 0)
    ELSE ApplyEffect(cfg, st, ch, t, req, pd)

\* check after validate_context, on the result em of check_emergency_access
DecideValidated(cfg, pols, st, ch, t, req, em) ==
    IF em = "error" THEN Failure("Engine", FALSE, 0, 0)
    ELSE IF em = "true"
    THEN [Verdict("EmergencyAccess", <<Msg("Emergency access granted", "")>>,
                  <<>>, <<>>, None, 10)
          EXCEPT !.policy_evaluated = FALSE]
    ELSE DecideByPolicy(cfg, st, ch, t, req,
                        EvaluatePolicies(pols, req.subject, req.action, req.resource,
                                         req.context))

\* check up to the construction of the response
Decide(cfg, pols, st, ch, t, req) ==
    IF Validate(req.context) # "" THEN Failure("ContextValidation", FALSE, 0, 0)
    ELSE DecideValidated(cfg, pols, st, ch, t, req, CheckEmergencyAccess(cfg, req.context))

\* AuditManager::is_enabled, as audit_decision consults it
AuditEnabled(cfg) == cfg.audit_enabled

\* AuditManager::create_audit_entry and the builder calls of audit_decision
AuditEntry(req, v) ==
    [user_id |-> IF req.subject.kind = "user" THEN Some(req.subject.id) ELSE None,
     action |-> req.action,
     resource_namespace |-> req.resource.kind,
     resource_id |-> req.resource.id,
     decision |-> v.decision,
     reasons |-> <<v.reasons>>]

\* HimsAuthorizationEngine::audit_decision with store_audit_entry: err, and
\* the rows the call appends to authorization_audit_log; a request whose
\* fault is "audit" stands for the database failing during the INSERT
AuditDecision(cfg, req, v) ==
    IF ~AuditEnabled(cfg) THEN [err |-> "", rows |-> <<>>, calls |-> 0]
    ELSE IF ~UuidParseOk(req.resource.id) THEN [err |-> "Uuid", rows |-> <<>>, calls |-> 1]
    ELSE IF req.fault = "audit" THEN [err |-> "Database", rows |-> <<>>, calls |-> 1]
    ELSE [err |-> "", rows |-> <<AuditEntry(req, v)>>, calls |-> 1]

\* what check returns (kind "ok" with the AuthorizationResponse, or kind
\* "err") on the verdict v and the result a of audit_decision, with the rows
\* appended to the audit log.  policy_evaluated, resolutions, lookups and
\* audit_calls record which parts of check ran.
AuthorizationResponse(v, a) ==
    IF v.err # ""
    THEN [kind |-> "err", error |-> v.err, decision |-> "none", allowed |-> FALSE,
          reasons |-> <<>>, requirements |-> <<>>, restrictions |-> <<>>,
          time_limit |-> None, confidence |-> 0,
          policy_evaluated |-> v.policy_evaluated, resolutions |-> v.resolutions,
          lookups |-> v.lookups, audit_calls |-> 0, audit_rows |-> <<>>]
    ELSE IF a.err # ""
    THEN [kind |-> "err", error |-> a.err, decision |-> "none", allowed |-> FALSE,
          reasons |-> <<>>, requirements |-> <<>>, restrictions |-> <<>>,
          time_limit |-> None, confidence |-> 0,
          policy_evaluated |-> v.policy_evaluated, resolutions |-> v.resolutions,
          lookups |-> v.lookups, audit_calls |-> a.calls, audit_rows |-> <<>>]
    ELSE [kind |-> "ok", error |-> "", decision |-> v.decision,
          allowed |-> Allowed(v.decision),
          reasons |-> v.reasons, requirements |-> v.requirements,
          restrictions |-> v.restrictions, time_limit |-> v.time_limit,
          confidence |-> v.confidence,
          policy_evaluated |-> v.policy_evaluated, resolutions |-> v.resolutions,
          lookups |-> v.lookups, audit_calls |-> a.calls, audit_rows |-> a.rows]

\* "let response = .." to the end of check
Audited(cfg, req, v) == AuthorizationResponse(v, AuditDecision(cfg, req, v))

\* HimsAuthorizationEngine::check
CheckResult(cfg, pols, st, ch, t, req) ==
    Audited(cfg, req, Decide(cfg, pols, st, ch, t, req))

\* HimsAuthorizationEngine::update_cache: the cache after the call
UpdateCache(cfg, ch, t, resource, relation, subjects) ==
    IF ~cfg.enable_caching THEN ch
    ELSE LET base == IF Cardinality(DOMAIN ch) >= cfg.max_cache_size THEN <<>> ELSE ch
             key == CacheKey(resource, relation) IN
         [k \in DOMAIN base \cup {key} |->
             IF k = key THEN [subjects |-> subjects, cached_at |-> t] ELSE base[k]]

---------------------------------------------------------------------------
(* The engine's environment: configurations, policies, contexts, requests *)

\* AuthorizationConfig (mod.rs) with AuditConfig.enabled (audit.rs)
Config(emergency, caching, audit, depth) ==
    [enable_emergency_access |-> emergency, enable_caching |-> caching,
     cache_ttl_seconds |-> CacheTtl, max_cache_size |-> MaxCacheSize,
     max_relation_depth |-> depth, audit_enabled |-> audit]

DefaultMaxRelationDepth == 10

Policy(id, name, conditions, effect, priority, active, created) ==
    [id |-> id, name |-> name, conditions |-> conditions, effect |-> effect,
     priority |-> priority, is_active |-> active, created_at |-> created]

PAllow50 == Policy("allow-50", "Allow 50", <<>>, Effect("Allow"), 50, TRUE, 1)
PDeny90 == Policy("deny-90", "Deny 90", <<>>, Effect("Deny"), 90, TRUE, 2)
PApproval80 ==
    Policy("after-hours-restricted", "After Hours Restricted Access",
           <<Cond("AfterHours")>>, Effect("RequireApproval"), 80, TRUE, 3)
PMfa85 ==
    Policy("remote-access-security", "Remote Access Security Requirements",
           <<Cond("RemoteAccess")>>, Effect("RequireSecondFactor"), 85, TRUE, 4)
PAudit70 ==
    Policy("sensitive-data-audit", "Sensitive Data Access Audit",
           <<Cond("DataClassification")>>, Effect("AuditOnly"), 70, TRUE, 5)
PTime50 == Policy("time-50", "Time Limit 50", <<>>, TimeLimit(3600), 50, TRUE, 6)
PRestrict90 ==
    Policy("restrict-90", "Restrict 90", <<Cond("Weekend")>>,
           Restrict(<<"read_only">>), 90, TRUE, 7)
PConsent60 ==
    Policy("patient-consent-required", "Patient Consent Required",
           <<Cond("PatientRelated")>>, Conditional(<<Cond("PatientConsent")>>), 60, TRUE, 8)
PInactive == Policy("inactive-100", "Inactive 100", <<>>, Effect("Allow"), 100, FALSE, 9)
PBadTime ==
    Policy("bad-time", "Bad Time", <<TimeOfDay("8am", "18:00")>>, Effect("Allow"), 40, TRUE, 10)

PApproval40 == Policy("approval-40", "Approval 40", <<>>, Effect("RequireApproval"), 40, TRUE, 14)

PolicyPool ==
    {PAllow50, PDeny90, PApproval80, PMfa85, PAudit70, PTime50, PRestrict90,
     PConsent60, PInactive, PBadTime, PApproval40}

\* HimsPolicyEngine::default_healthcare_policies
PBreakGlass ==
    Policy("emergency-break-glass", "Emergency Break-Glass Access",
           <<Cond("EmergencyDeclared"), Cond("ReasonRequired"), Cond("AuditTrailRequired")>>,
           Effect("Allow"), 100, TRUE, 15)
PBusinessHours ==
    Policy("business-hours-access", "Standard Business Hours Access",
           <<TimeOfDay("08:00", "18:00"),
             DayOfWeek(<<"Monday", "Tuesday", "Wednesday", "Thursday", "Friday">>)>>,
           Effect("Allow"), 50, TRUE, 16)
PCritical ==
    Policy("critical-patient-access", "Critical Patient Enhanced Access",
           <<UrgencyLevelCond("Critical"), Cond("RequireRole")>>,
           Effect("AuditOnly"), 90, TRUE, 17)
DefaultHealthcarePolicies ==
    <<PBreakGlass, PBusinessHours, PApproval80, PCritical, PAudit70, PMfa85, PConsent60>>

\* the policy lists an engine is constructed with (HimsPolicyEngine::with_policies)
PolicyLists == UNION {[1..n -> PolicyPool] : n \in 0..MaxPolicies}

Location(remote) == [hospital_id |-> "h1", is_remote |-> remote, connection_info |-> None]
Clinical(patient, urgency) == [patient_id |-> patient, urgency_level |-> urgency]
Emergency(is, type, justification, approval_required, approved_by, expires_at) ==
    [is_emergency |-> is, emergency_type |-> type, justification |-> justification,
     approval_required |-> approval_required, approved_by |-> approved_by,
     expires_at |-> expires_at]

Context(ts, location, clinical, emergency, trail) ==
    [timestamp |-> ts, location |-> location, clinical |-> clinical,
     emergency |-> emergency, audit_trail |-> trail]

\* Monday 07:30, 12:00 and 18:30, Saturday 20:00
SampleTimes == {7 * 60 + 30, 12 * 60, 18 * 60 + 30, 5 * 24 * 60 + 20 * 60}
Noon == 12 * 60

\* emergency contexts at timestamp ts: valid ones (with and without approval
\* and expiry), and ones that break each rule of validate
Emergencies(ts) ==
    {Emergency(TRUE, Some("BreakGlass"), Some("j"), FALSE, None, None),
     Emergency(TRUE, Some("CodeBlue"), Some("j"), TRUE, Some("uuid-u2"), Some(ts + 1)),
     Emergency(TRUE, Some("CodeBlue"), None, FALSE, None, None),
     Emergency(TRUE, Some("CodeBlue"), Some("j"), TRUE, None, None),
     Emergency(TRUE, Some("CodeBlue"), Some("j"), FALSE, None, Some(ts)),
     Emergency(TRUE, Some("CodeBlue"), Some("j"), FALSE, None, Some(ts - 1)),
     Emergency(FALSE, None, None, FALSE, None, None),
     Emergency(FALSE, None, None, TRUE, None, None),
     Emergency(FALSE, None, Some("j"), FALSE, None, Some(ts - 1))}

PlainContexts ==
    {Context(ts, l, c, None, <<>>) :
        ts \in SampleTimes, l \in {None, Some(Location(FALSE)), Some(Location(TRUE))},
        c \in {None, Some(Clinical(Some("uuid-p1"), "Routine"))}}

EmergencyContexts ==
    {Context(Noon, None, c, Some(e), <<>>) :
        c \in {None, Some(Clinical(Some("uuid-p1"), "Critical"))},
        e \in Emergencies(Noon)}

Request(subject, action, resource, context, fault) ==
    [subject |-> subject, action |-> action, resource |-> resource,
     context |-> context, fault |-> fault]

Targets == {<<U1, "Read", P1>>, <<U2, "ViewBilling", B1>>, <<U1, "Configure", SystemConfig("main")>>}

\* the requests of the specification SpecCheck
CheckRequests ==
    {Request(x[1], x[2], x[3], c, "none") : x \in Targets, c \in PlainContexts \cup EmergencyContexts}
    \cup {Request(U1, "Read", P1, Context(Noon, None, None, e, <<>>), f) :
            e \in {None, Some(Emergency(TRUE, Some("BreakGlass"), Some("j"), FALSE, None, None))},
            f \in {"relations", "audit"}}

---------------------------------------------------------------------------
(* Operations.  Every operation records itself in last, so last always     *)
(* describes the operation that ran latest, on the state it left.          *)

\* AuthorizationEngine::check
Check(req) ==
    /\ Len(auditLog) < MaxAudit
    /\ last' = [op |-> "check", req |-> req,
                res |-> CheckResult(config, policies, store, cache, now, req),
                audit_before |-> Len(auditLog)]
    /\ auditLog' = auditLog \o last'.res.audit_rows
    /\ UNCHANGED <<expanding, readAt, config, policies, store, cache, now>>

\* AuthorizationEngine::has_relationship
HasRelationship(object, relation, subject) ==
    /\ last' = [op |-> "has_relationship", object |-> object, relation |-> relation,
                subject |-> subject,
                res |-> StorageHasRelationship(store, now, object, relation, subject)]
    /\ UNCHANGED <<expanding, readAt, config, policies, store, cache, auditLog, now>>

\* the time of the store read behind the entry that update_cache writes
NoteRead(cfg, ra, resource, relation, t) ==
    IF ~cfg.enable_caching THEN ra
    ELSE [k \in DOMAIN ra \cup {CacheKey(resource, relation)} |->
             IF k = CacheKey(resource, relation) THEN t ELSE ra[k]]

\* AuthorizationEngine::expand, run without another task between its awaits
Expand(resource, relation) ==
    LET subjects == FindDirectRelationships(store, now, resource, relation) IN
    /\ cache' = IF subjects.err # "" THEN cache
                ELSE UpdateCache(config, cache, now, resource, relation, subjects.value)
    /\ readAt' = IF subjects.err # "" THEN readAt
                 ELSE NoteRead(config, readAt, resource, relation, now)
    /\ last' = [op |-> "expand", resource |-> resource, relation |-> relation,
                res |-> subjects]
    /\ UNCHANGED <<expanding, config, policies, store, auditLog, now>>

\* an expand that takes its list from the cache entry, whatever its age
ExpandReadCached(resource, relation) ==
    /\ Cardinality(expanding) < MaxExpanding
    /\ expanding' = expanding \cup
            {[resource |-> resource, relation |-> relation,
              subjects |-> IF CacheKey(resource, relation) \in DOMAIN cache
                           THEN cache[CacheKey(resource, relation)].subjects
                           ELSE FindDirectRelationships(store, now, resource, relation).value,
              read_at |-> now]}
    /\ last' = [op |-> "expand_read", resource |-> resource, relation |-> relation]
    /\ UNCHANGED <<readAt, config, policies, store, cache, auditLog, now>>

\* AuthorizationEngine::expand up to the return of find_direct_relationships:
\* an error returns at once through "?", a list is held by the suspended call
ExpandRead(resource, relation) ==
    /\ Cardinality(expanding) < MaxExpanding
    /\ LET subjects == FindDirectRelationships(store, now, resource, relation) IN
       /\ expanding' = IF subjects.err # "" THEN expanding
                       ELSE expanding \cup {[resource |-> resource, relation |-> relation,
                                             subjects |-> subjects.value, read_at |-> now]}
       /\ last' = IF subjects.err # ""
                  THEN [op |-> "expand", resource |-> resource, relation |-> relation,
                        res |-> subjects]
                  ELSE [op |-> "expand_read", resource |-> resource, relation |-> relation]
    /\ UNCHANGED <<readAt, config, policies, store, cache, auditLog, now>>

\* AuthorizationEngine::expand from update_cache to its return
ExpandReturn(call) ==
    /\ call \in expanding
    /\ expanding' = expanding \ {call}
    /\ cache' = UpdateCache(config, cache, now, call.resource, call.relation, call.subjects)
    /\ readAt' = NoteRead(config, readAt, call.resource, call.relation, call.read_at)
    /\ last' = [op |-> "expand", resource |-> call.resource, relation |-> call.relation,
                res |-> Ok(call.subjects)]
    /\ UNCHANGED <<config, policies, store, auditLog, now>>

\* AuthorizationEngine::list_objects
ListObjects(subject, action, resource_type) ==
    LET relationships == GetRelationshipsForSubject(store, now, subject) IN
    /\ last' = [op |-> "list_objects", subject |-> subject,
                res |-> IF relationships.err # "" THEN relationships
                        ELSE Ok([i \in 1..Len(relationships.value) |->
                                    relationships.value[i].object])]
    /\ UNCHANGED <<expanding, readAt, config, policies, store, cache, auditLog, now>>

\* AuthorizationEngine::add_relationship
AddRelationship(tuple) ==
    /\ Len(store) < MaxRows
    /\ LET r == StoreRelationship(store, now, tuple) IN
       /\ store' = IF r.err # "" THEN store ELSE r.value
       /\ last' = [op |-> "add_relationship", err |-> r.err]
    /\ UNCHANGED <<expanding, readAt, config, policies, cache, auditLog, now>>

\* AuthorizationEngine::remove_relationship
RemoveRelationshipOp(tuple) ==
    /\ LET r == RemoveRelationship(store, tuple) IN
       /\ store' = IF r.err # "" THEN store ELSE r.value
       /\ last' = [op |-> "remove_relationship", err |-> r.err,
                   rows_affected |-> IF r.err # "" THEN 0
                                     ELSE Cardinality({i \in 1..Len(store) :
                                            /\ RowMatches(store[i], tuple.object,
                                                          tuple.relation, tuple.subject)
                                            /\ store[i].is_active})]
    /\ UNCHANGED <<expanding, readAt, config, policies, cache, auditLog, now>>

\* AuthorizationStorage::cleanup_expired_relationships, run periodically
CleanupExpired ==
    /\ LET r == CleanupExpiredRelationships(store, now) IN
       /\ store' = r.store
       /\ last' = [op |-> "cleanup_expired_relationships", count |-> r.count]
    /\ UNCHANGED <<expanding, readAt, config, policies, cache, auditLog, now>>

\* time passes
Tick ==
    /\ now < MaxTime
    /\ now' = now + 1
    /\ last' = [op |-> "tick"]
    /\ UNCHANGED <<expanding, readAt, config, policies, store, cache, auditLog>>

---------------------------------------------------------------------------
(* Spec: the engine with its relation store, cache and clock *)

StoreSubjects == {U1, U2}
StoreRelations == {Rel("DepartmentHead"), Rel("DepartmentMember")}
StoreTuples ==
    {Tuple(P1, r, s, e) : r \in StoreRelations, s \in StoreSubjects, e \in {None, Some(1)}}
    \cup {Tuple(P1, Rel("DepartmentMember"), Role("physician"), None)}

EngineRequests ==
    {Request(s, "Read", P1, Context(Noon, None, None, None, <<>>), "none") : s \in StoreSubjects}

Init ==
    /\ config = Config(TRUE, FALSE, TRUE, DefaultMaxRelationDepth)
    /\ policies \in {<<>>, <<PAudit70>>}
    /\ store = <<>>
    /\ cache = <<>>
    /\ expanding = {}
    /\ readAt = <<>>
    /\ auditLog = <<>>
    /\ now = 0
    /\ last = [op |-> "init"]

Next ==
    \/ \E req \in EngineRequests : Check(req)
    \/ \E r \in StoreRelations, s \in StoreSubjects : HasRelationship(P1, r, s)
    \/ \E r \in StoreRelations : Expand(P1, r)
    \/ \E s \in StoreSubjects : ListObjects(s, "Read", "patient")
    \/ \E t \in StoreTuples : AddRelationship(t)
    \/ \E t \in StoreTuples : RemoveRelationshipOp(t)
    \/ CleanupExpired
    \/ Tick

Spec == Init /\ [][Next]_vars

---------------------------------------------------------------------------
(* SpecCheck: the first check on an engine constructed with each           *)
(* configuration and each policy list, over a relation store that holds at *)
(* most one tuple                                                          *)

CheckStores ==
    {<<>>,
     StoreRelationship(<<>>, 0, Tuple(P1, Rel("CareTeamMember"), U1, None)).value,
     StoreRelationship(
         StoreRelationship(<<>>, 0, Tuple(P1, Rel("CareTeamMember"), U1, None)).value,
         0, Tuple(P1, Rel("AttendingNurse"), U1, None)).value}

InitCheck ==
    /\ config \in {Config(e, FALSE, a, d) : e \in BOOLEAN, a \in BOOLEAN,
                                             d \in {1, 2, DefaultMaxRelationDepth}}
    /\ policies \in PolicyLists \cup {DefaultHealthcarePolicies}
    /\ store \in CheckStores
    /\ cache = <<>>
    /\ expanding = {}
    /\ readAt = <<>>
    /\ auditLog = <<>>
    /\ now = 0
    /\ last = [op |-> "init"]

NextCheck == last.op = "init" /\ \E req \in CheckRequests : Check(req)

SpecCheck == InitCheck /\ [][NextCheck]_vars

---------------------------------------------------------------------------
(* SpecCache: the engine with caching enabled; tasks calling expand are    *)
(* interleaved with the other operations at the await between the store    *)
(* read and update_cache                                                   *)

CacheRelations == {Rel("PrimaryPhysician")}
CacheTuples == {Tuple(P1, r, s, None) : r \in CacheRelations, s \in StoreSubjects}

InitCache ==
    /\ config = Config(TRUE, TRUE, FALSE, DefaultMaxRelationDepth)
    /\ policies = <<PAudit70>>
    /\ store = <<>>
    /\ cache = <<>>
    /\ expanding = {}
    /\ readAt = <<>>
    /\ auditLog = <<>>
    /\ now = 0
    /\ last = [op |-> "init"]

NextCache ==
    \/ \E req \in EngineRequests : Check(req)
    \/ \E r \in CacheRelations : ExpandRead(P1, r)
    \/ \E call \in expanding : ExpandReturn(call)
    \/ \E t \in CacheTuples : AddRelationship(t)
    \/ \E t \in CacheTuples : RemoveRelationshipOp(t)
    \/ Tick

SpecCache == InitCache /\ [][NextCache]_vars

---------------------------------------------------------------------------
(* SpecCustom: an engine whose store is only ever given tuples of Custom   *)
(* relations, asked about Custom and built-in relations                    *)

CustomRelations == {CustomRel("primary_physician"), CustomRel("research_assistant")}
CustomTuples == {Tuple(P1, r, s, None) : r \in CustomRelations, s \in StoreSubjects}

InitCustom ==
    /\ config = Config(TRUE, FALSE, FALSE, DefaultMaxRelationDepth)
    /\ policies = <<PAudit70>>
    /\ store = <<>>
    /\ cache = <<>>
    /\ expanding = {}
    /\ readAt = <<>>
    /\ auditLog = <<>>
    /\ now = 0
    /\ last = [op |-> "init"]

NextCustom ==
    \/ \E t \in CustomTuples : AddRelationship(t)
    \/ \E t \in CustomTuples : RemoveRelationshipOp(t)
    \/ \E r \in CustomRelations \cup {Rel("PrimaryPhysician")}, s \in StoreSubjects :
          HasRelationship(P1, r, s)
    \/ \E req \in EngineRequests : Check(req)

SpecCustom == InitCustom /\ [][NextCustom]_vars

---------------------------------------------------------------------------
(* SpecPolicy: evaluate_policies called on a policy engine built with each *)
(* list of at most MaxPolicies policies of PolicyEnginePool, and called a  *)
(* second time with the same context                                       *)

\* PolicyEngine::evaluate_policies; previous is the call that returned before
\* this one
EvaluatePoliciesCall(subject, action, resource, ctx) ==
    /\ last' = [op |-> "evaluate_policies", subject |-> subject, action |-> action,
                resource |-> resource, context |-> ctx,
                res |-> EvaluatePolicies(policies, subject, action, resource, ctx),
                previous |-> IF last.op = "evaluate_policies"
                             THEN Some([subject |-> last.subject, action |-> last.action,
                                        resource |-> last.resource,
                                        context |-> last.context, res |-> last.res])
                             ELSE None]
    /\ UNCHANGED <<expanding, readAt, config, policies, store, cache, auditLog, now>>

\* the variants of PolicyCondition that evaluate_condition has no arm for
UnmodelledKinds ==
    {"DateRange", "AllowedIpRanges", "ClinicalContext", "RequireRole", "RequireRelation",
     "DepartmentMembership", "MinimumClearanceLevel", "MultiFactorAuthentication",
     "ResourceType", "ResourceOwnership", "DataClassification", "SecondaryApproval",
     "ComplianceFlag", "WorkflowStep", "WorkflowPriority", "Custom"}

PUnmodelled(kind) == Policy(kind, kind, <<Cond(kind)>>, Effect("Allow"), 30, TRUE, 11)
PTwoConditions ==
    Policy("after-hours-remote", "After Hours Remote",
           <<Cond("AfterHours"), Cond("RemoteAccess")>>, Effect("Deny"), 95, TRUE, 12)
PFalseBeforeBadTime ==
    Policy("weekend-bad-time", "Weekend Bad Time",
           <<Cond("Weekend"), TimeOfDay("8am", "18:00")>>, Effect("Allow"), 45, TRUE, 13)

PolicyEnginePool ==
    PolicyPool \cup {PTwoConditions, PFalseBeforeBadTime}
    \cup {PUnmodelled(k) : k \in UnmodelledKinds}

\* Monday 07:30 and 12:00, Saturday 20:00; on site unknown or remote; with
\* and without a break-glass emergency
PolicyContexts ==
    {Context(ts, l, Some(Clinical(Some("uuid-p1"), "Routine")), e, <<>>) :
        ts \in {7 * 60 + 30, Noon, 5 * 24 * 60 + 20 * 60},
        l \in {None, Some(Location(TRUE))},
        e \in {None, Some(Emergency(TRUE, Some("BreakGlass"), Some("j"), FALSE, None, None))}}

InitPolicy ==
    /\ config = Config(TRUE, FALSE, TRUE, DefaultMaxRelationDepth)
    /\ policies \in UNION {[1..n -> PolicyEnginePool] : n \in 0..MaxPolicies}
    /\ store = <<>>
    /\ cache = <<>>
    /\ expanding = {}
    /\ readAt = <<>>
    /\ auditLog = <<>>
    /\ now = 0
    /\ last = [op |-> "init"]

NextPolicy ==
    \/ /\ last.op = "init"
       /\ \E x \in Targets, ctx \in PolicyContexts :
            EvaluatePoliciesCall(x[1], x[2], x[3], ctx)
    \/ /\ last.op = "evaluate_policies"
       /\ last.previous = None
       /\ \E x \in Targets : EvaluatePoliciesCall(x[1], x[2], x[3], last.context)

SpecPolicy == InitPolicy /\ [][NextPolicy]_vars

---------------------------------------------------------------------------
(* SpecResolve: resolve_relationships entered at every depth up to         *)
(* MaxStartDepth with every visited set over ResolveKeys, as its recursive *)
(* calls enter it                                                          *)

\* HimsAuthorizationEngine::resolve_relationships
Resolve(resource, subject, relation, visited, depth) ==
    /\ last' = [op |-> "resolve_relationships", resource |-> resource, subject |-> subject,
                relation |-> relation, visited |-> visited, depth |-> depth,
                res |-> ResolveRelationships(config, store, cache, now, "none", resource,
                                             subject, relation, visited, depth)]
    /\ UNCHANGED <<expanding, readAt, config, policies, store, cache, auditLog, now>>

ResolveRelations ==
    {Rel("ConsultingPhysician"), Rel("PrimaryPhysician"), Rel("DepartmentHead"),
     Rel("CareTeamMember")}

ResolveKeys ==
    {VisitKey(P1, r, U1) : r \in {Rel("ConsultingPhysician"), Rel("PrimaryPhysician")}}

ResolveStores ==
    {<<>>,
     StoreRelationship(<<>>, 0, Tuple(P1, Rel("PrimaryPhysician"), U1, None)).value}

\* the cache after expand(P1, ConsultingPhysician) and expand(P1,
\* PrimaryPhysician) on the store st at time 0
ExpandedCache(st) ==
    UpdateCache(Config(TRUE, TRUE, TRUE, DefaultMaxRelationDepth),
        UpdateCache(Config(TRUE, TRUE, TRUE, DefaultMaxRelationDepth), <<>>, 0, P1,
                    Rel("ConsultingPhysician"),
                    FindDirectRelationships(st, 0, P1, Rel("ConsultingPhysician")).value),
        0, P1, Rel("PrimaryPhysician"),
        FindDirectRelationships(st, 0, P1, Rel("PrimaryPhysician")).value)

InitResolve ==
    /\ config \in {Config(TRUE, c, TRUE, d) : c \in BOOLEAN,
                                             d \in {1, 2, DefaultMaxRelationDepth}}
    /\ policies = <<>>
    /\ store \in ResolveStores
    /\ cache \in IF config.enable_caching THEN {<<>>, ExpandedCache(store)} ELSE {<<>>}
    /\ expanding = {}
    /\ readAt = [k \in DOMAIN cache |-> 0]
    /\ auditLog = <<>>
    /\ now = 0
    /\ last = [op |-> "init"]

NextResolve ==
    \E relation \in ResolveRelations, subject \in StoreSubjects,
       visited \in SUBSET ResolveKeys, depth \in 0..MaxStartDepth :
        Resolve(P1, subject, relation, visited, depth)

SpecResolve == InitResolve /\ [][NextResolve]_vars

---------------------------------------------------------------------------
(* Properties of check.  last describes the check that ran latest; the      *)
(* engine state it ran on is the current state but for the audit log.      *)

\* RequestContext invariants hold
ValidContext(ctx) == Validate(ctx) = ""

\* no active policy of the list has all its conditions met by ctx
NoPolicyApplies(pols, ctx) ==
    \A i \in 1..Len(pols) :
        ~pols[i].is_active \/ AllConditionsMet(pols[i].conditions, ctx, 1) = "false"

\* the store holds no live tuple relating the subject to the resource by a
\* relation the action requires
NoMatchingRelationship(st, t, req) ==
    LET required == GetRequiredRelations(req.action, req.resource) IN
    ~\E i \in 1..Len(st), k \in 1..Len(required) :
        RowMatches(st[i], req.resource, required[k], req.subject) /\ RowLive(st[i], t)

\* check returned the decision d
Returned(d) == last.res.kind = "ok" /\ last.res.decision = d

\* check failed because the write of the audit entry failed in the store
AuditWriteFailed ==
    /\ last.res.kind = "err"
    /\ last.res.audit_calls = 1
    /\ last.res.error \in {"Database", "Uuid"}

ValidEmergency(ctx) ==
    /\ IsSome(ctx.emergency)
    /\ Unwrap(ctx.emergency).is_emergency
    /\ IsSome(Unwrap(ctx.emergency).justification)
    /\ Unwrap(ctx.emergency).approval_required => IsSome(Unwrap(ctx.emergency).approved_by)
    /\ \/ Unwrap(ctx.emergency).expires_at = None
       \/ Unwrap(Unwrap(ctx.emergency).expires_at) > ctx.timestamp

\* the emergency short-circuit: EmergencyAccess with allowed = true, and
\* neither policy evaluation nor relationship resolution ran
EmergencyShortCircuit ==
    \/ /\ Returned("EmergencyAccess") /\ last.res.allowed
       /\ ~last.res.policy_evaluated
       /\ last.res.resolutions = 0 /\ last.res.lookups = 0
    \/ /\ AuditWriteFailed
       /\ ~last.res.policy_evaluated
       /\ last.res.resolutions = 0 /\ last.res.lookups = 0

C3_EmergencyValidation ==
    (/\ last.op = "check"
     /\ IsSome(last.req.context.emergency)
     /\ Unwrap(last.req.context.emergency).is_emergency
     /\ ~IsSome(Unwrap(last.req.context.emergency).justification))
    => /\ last.res.kind = "err"
       /\ last.res.error = "ContextValidation"
       /\ last.res.decision = "none"
       /\ ~last.res.policy_evaluated
       /\ last.res.resolutions = 0
       /\ last.res.lookups = 0
       /\ last.res.audit_calls = 0
       /\ Len(auditLog) = last.audit_before

C3_Witness ==
    /\ last.op = "check"
    /\ IsSome(last.req.context.emergency)
    /\ Unwrap(last.req.context.emergency).is_emergency
    /\ ~IsSome(Unwrap(last.req.context.emergency).justification)
    /\ Len(policies) > 0
    /\ Len(store) > 0
    /\ AuditEnabled(config)
    /\ last.res.kind = "err"
    /\ last.res.error = "ContextValidation"

\* the indexes of the active policies whose conditions ctx meets
Applying(pols, ctx) ==
    {i \in 1..Len(pols) :
        pols[i].is_active /\ AllConditionsMet(pols[i].conditions, ctx, 1) = "true"}

\* the PolicyDecision that the latest check obtained from evaluate_policies
LastPolicyDecision ==
    EvaluatePolicies(policies, last.req.subject, last.req.action, last.req.resource,
                     last.req.context)

\* C4: when two or more active policies apply, the effect returned by
\* evaluate_policies is the effect of an applying policy of maximum
\* priority; with Allow at priority 50 and Deny at priority 90 applying,
\* check decides Deny in whatever order the policies are stored
C4_PolicyPriority ==
    (last.op = "check" /\ last.res.policy_evaluated /\ ~LastPolicyDecision.error)
    => LET A == Applying(policies, last.req.context) IN
       /\ Cardinality(A) >= 2 =>
             \E i \in A :
                 /\ policies[i].effect = LastPolicyDecision.decision
                 /\ \A j \in A : policies[j].priority <= policies[i].priority
       /\ policies \in {<<PAllow50, PDeny90>>, <<PDeny90, PAllow50>>} =>
             (Returned("Deny") /\ ~last.res.allowed) \/ AuditWriteFailed

C4_Witness ==
    /\ last.op = "check"
    /\ policies = <<PAllow50, PDeny90>>
    /\ Applying(policies, last.req.context) = {1, 2}
    /\ LastPolicyDecision.decision = Effect("Deny")
    /\ Returned("Deny")

\* C5: in every response returned by check, allowed is true if the decision
\* is Allow, EmergencyAccess, AllowWithRestrictions or BreakGlassAccess, and
\* false for every other decision
C5_AllowedMapping ==
    (last.op = "check" /\ last.res.kind = "ok")
    => /\ last.res.decision \in {"Allow", "Deny", "RequireApproval", "RequireMFA",
                                 "AllowWithRestrictions", "EmergencyAccess",
                                 "BreakGlassAccess"}
       /\ last.res.allowed <=>
             last.res.decision \in {"Allow", "EmergencyAccess", "AllowWithRestrictions",
                                    "BreakGlassAccess"}

C5_Witness ==
    /\ last.op = "check"
    /\ Returned("AllowWithRestrictions")
    /\ last.res.allowed

\* C6: when no emergency short-circuit occurs, the decision of check follows
\* the winning policy effect: Allow -> Allow, Deny -> Deny, RequireApproval ->
\* RequireApproval (not allowed), RequireSecondFactor -> RequireMFA (not
\* allowed), TimeLimit(s) -> AllowWithRestrictions with time_limit = s and a
\* restriction note, Restrict(list) -> AllowWithRestrictions with the list
C6_EffectToDecision ==
    (last.op = "check" /\ last.res.kind = "ok" /\ last.res.policy_evaluated)
    => LET e == LastPolicyDecision.decision IN
       /\ e.kind = "Allow" => Returned("Allow")
       /\ e.kind = "Deny" => Returned("Deny")
       /\ e.kind = "RequireApproval" => Returned("RequireApproval") /\ ~last.res.allowed
       /\ e.kind = "RequireSecondFactor" => Returned("RequireMFA") /\ ~last.res.allowed
       /\ e.kind = "TimeLimit" =>
             /\ Returned("AllowWithRestrictions")
             /\ last.res.time_limit = Some(e.seconds)
             /\ last.res.restrictions = <<Msg("Time limit: {} seconds", e.seconds)>>
       /\ e.kind = "Restrict" =>
             /\ Returned("AllowWithRestrictions")
             /\ last.res.restrictions = [i \in 1..Len(e.list) |-> Msg(e.list[i], "")]

\* User(U2), ViewBilling, Billing(B1) after hours under after-hours-restricted
C6_Witness ==
    /\ last.op = "check"
    /\ last.req.subject = U2 /\ last.req.action = "ViewBilling" /\ last.req.resource = B1
    /\ policies = <<PApproval80>>
    /\ IsAfterHours(last.req.context)
    /\ Returned("RequireApproval")
    /\ ~last.res.allowed

\* C7: with an empty policy set, a valid non-emergency context and exactly
\* one active tuple {Patient(P1), CareTeamMember, User(U1)} in the store,
\* check(User(U1), Read, Patient(P1)) returns Allow with the reason
\* "Access granted via care_team_member relationship"
C7_CareTeamMemberAllowedWithoutPolicies ==
    (/\ last.op = "check"
     /\ policies = <<>>
     /\ ValidContext(last.req.context)
     /\ ~IsEmergency(last.req.context)
     /\ store = StoreRelationship(<<>>, 0, Tuple(P1, Rel("CareTeamMember"), U1, None)).value
     /\ last.req.subject = U1 /\ last.req.action = "Read" /\ last.req.resource = P1
     /\ last.req.fault = "none")
    => /\ Returned("Allow")
       /\ last.res.reasons =
             <<Msg("Access granted via {} relationship", "care_team_member")>>

---------------------------------------------------------------------------
(* Properties of the relation store.  The queries leave the store and the   *)
(* clock as they found them, so last.res is the answer on the current state *)

\* the row relates subject to object by relation
RowOf(row, object, relation, subject) ==
    /\ row.resource_type = object.kind /\ row.resource_id = object.id
    /\ row.relation = RelationToString(relation)
    /\ row.subject_type = subject.kind /\ row.subject_id = subject.id

\* the row's expires_at is at or before t
Expired(row, t) == row.expires_at # None /\ Unwrap(row.expires_at) <= t

\* C8: if the store holds an active tuple (R, DepartmentHead, S) and no tuple
\* (R, DepartmentMember, S), has_relationship(R, DepartmentMember, S) returns
\* true, because DepartmentHead inherits DepartmentMember
C8_DepartmentHeadInheritsMember ==
    (/\ last.op = "has_relationship"
     /\ last.relation = Rel("DepartmentMember")
     /\ \E i \in 1..Len(store) :
            /\ RowOf(store[i], last.object, Rel("DepartmentHead"), last.subject)
            /\ store[i].is_active /\ ~Expired(store[i], now)
     /\ ~\E i \in 1..Len(store) :
            RowOf(store[i], last.object, Rel("DepartmentMember"), last.subject))
    => last.res = Ok(TRUE)

\* C9: a tuple whose expires_at is at or before the current time is absent
\* from the results of has_relationship, expand and list_objects, whether or
\* not it was removed or cleaned up: every result rests on a row that has
\* not expired
C9_ExpiredTuplesAbsent ==
    /\ (last.op = "has_relationship" /\ last.res.err = "" /\ last.res.value)
       => \E i \in 1..Len(store) :
              /\ RowOf(store[i], last.object, last.relation, last.subject)
              /\ ~Expired(store[i], now)
    /\ (last.op = "expand" /\ last.res.err = "")
       => \A k \in 1..Len(last.res.value) :
              \E i \in 1..Len(store) :
                  /\ RowOf(store[i], last.resource, last.relation, last.res.value[k])
                  /\ ~Expired(store[i], now)
    /\ (last.op = "list_objects" /\ last.res.err = "")
       => \A k \in 1..Len(last.res.value) :
              \E i \in 1..Len(store) :
                  /\ store[i].resource_type = last.res.value[k].kind
                  /\ store[i].resource_id = last.res.value[k].id
                  /\ store[i].subject_type = last.subject.kind
                  /\ store[i].subject_id = last.subject.id
                  /\ ~Expired(store[i], now)

\* expand leaves out a subject whose tuple expired and was never removed,
\* and returns the subject whose tuple is current
C9_Witness ==
    /\ last.op = "expand"
    /\ last.res.err = ""
    /\ Len(last.res.value) = 1
    /\ Len(store) = 2
    /\ \A i \in 1..Len(store) :
           /\ store[i].is_active
           /\ store[i].resource_type = last.resource.kind
           /\ store[i].resource_id = last.resource.id
           /\ store[i].relation = RelationToString(last.relation)
    /\ \E i \in 1..Len(store) :
           /\ Expired(store[i], now)
           /\ store[i].subject_id # last.res.value[1].id

\* C10: every check that returns a decision appends exactly one audit entry
\* carrying that decision, whatever the audit configuration flags are
C10_AuditUnconditional ==
    (last.op = "check" /\ last.res.kind = "ok")
    => /\ Len(auditLog) = last.audit_before + 1
       /\ auditLog[Len(auditLog)].decision = last.res.decision

---------------------------------------------------------------------------
(* Properties of check: failures *)

\* C11: if a relationship-store lookup made during resolution fails, or
\* persisting the audit entry fails, check returns an error and no
\* AuthorizationResponse, and nothing is appended to the audit log
C11_StoreFailuresFailTheRequest ==
    (/\ last.op = "check"
     /\ \/ last.req.fault = "relations" /\ last.res.lookups >= 1
        \/ last.req.fault = "audit" /\ last.res.audit_calls >= 1)
    => /\ last.res.kind = "err"
       /\ last.res.error = "Database"
       /\ last.res.decision = "none"
       /\ ~last.res.allowed
       /\ Len(auditLog) = last.audit_before

\* the database fails at the first lookup of the relationship resolution
\* that an AuditOnly policy started
C11_Witness ==
    /\ last.op = "check"
    /\ last.req.fault = "relations"
    /\ last.res.policy_evaluated
    /\ LastPolicyDecision.decision = Effect("AuditOnly")
    /\ last.res.lookups = 1
    /\ last.res.kind = "err"
    /\ last.res.error = "Database"

---------------------------------------------------------------------------
(* Properties of resolve_relationships *)

\* the store holds a live tuple of the relation between subject and resource
Holds(st, t, resource, relation, subject) ==
    \E i \in 1..Len(st) :
        /\ RowOf(st[i], resource, relation, subject)
        /\ st[i].is_active /\ ~Expired(st[i], t)

\* C12: within the resolution of one candidate relation, a second visit to a
\* (resource, relation, subject) triple fails with CircularDependency (with
\* MaxDepthExceeded when the depth bound is hit first) and is never
\* answered true or false, be the repeat at the entry of the resolution or
\* at the parent relation it moves on to after a cache miss
C12_CycleDetection ==
    last.op = "resolve_relationships"
    => LET key == VisitKey(last.resource, last.relation, last.subject)
           parent == GetParentRelation(last.relation)
           deep == last.depth >= config.max_relation_depth IN
       /\ (key \in last.visited /\ ~deep) => last.res.res = "CircularDependency"
       /\ key \in last.visited => last.res.res \in {"CircularDependency", "MaxDepthExceeded"}
       /\ (/\ key \notin last.visited
           /\ ~deep
           /\ ~IsSome(CacheLookup(config, cache, now, last.resource, last.relation))
           /\ ~Holds(store, now, last.resource, last.relation, last.subject)
           /\ IsSome(parent)
           /\ VisitKey(last.resource, Unwrap(parent), last.subject) \in last.visited)
          => last.res.res \in {"CircularDependency", "MaxDepthExceeded"}

\* the resolution of ConsultingPhysician moves on to PrimaryPhysician, whose
\* triple was visited before
C12_Witness ==
    /\ last.op = "resolve_relationships"
    /\ last.relation = Rel("ConsultingPhysician")
    /\ last.visited = {VisitKey(last.resource, Rel("PrimaryPhysician"), last.subject)}
    /\ Holds(store, now, last.resource, Rel("PrimaryPhysician"), last.subject)
    /\ last.res.res = "CircularDependency"
    /\ last.res.calls = 1

\* C13: a resolution chain longer than max_relation_depth fails with
\* MaxDepthExceeded, and check returns that error: when the first required
\* relation that has a parent is reached without a match and the bound is one
\* level, check fails with MaxDepthExceeded whatever the later candidate
\* relations would have matched
C13_DepthBound ==
    (/\ last.op = "check"
     /\ last.req.fault = "none"
     /\ last.res.policy_evaluated
     /\ ~LastPolicyDecision.error
     /\ LastPolicyDecision.decision = Effect("AuditOnly")
     /\ config.max_relation_depth = 1
     /\ LET required == GetRequiredRelations(last.req.action, last.req.resource) IN
        \E i \in 1..Len(required) :
            /\ IsSome(GetParentRelation(required[i]))
            /\ \A j \in 1..i :
                ~Holds(store, now, last.req.resource, required[j], last.req.subject))
    => /\ last.res.kind = "err"
       /\ last.res.error = "MaxDepthExceeded"
       /\ last.res.decision = "none"
       /\ ~last.res.allowed

\* the subject is a care team member of the patient, the fourth candidate of
\* Read; the second candidate, ConsultingPhysician, exceeds the bound first
C13_Witness ==
    /\ last.op = "check"
    /\ last.req.fault = "none"
    /\ config.max_relation_depth = 1
    /\ Holds(store, now, last.req.resource, Rel("CareTeamMember"), last.req.subject)
    /\ GetRequiredRelations(last.req.action, last.req.resource)[2] = Rel("ConsultingPhysician")
    /\ last.res.resolutions = 2
    /\ last.res.kind = "err"
    /\ last.res.error = "MaxDepthExceeded"

---------------------------------------------------------------------------
(* Properties of the relationship store *)

\* the store as it would stand had no tuple been stored a second time: a row
\* equal in every column to an earlier row is left out
RECURSIVE StoredOnce(_, _)
StoredOnce(st, i) ==
    IF i > Len(st) THEN <<>>
    ELSE IF \E j \in 1..(i - 1) : st[j] = st[i] THEN StoredOnce(st, i + 1)
    ELSE <<st[i]>> \o StoredOnce(st, i + 1)

\* the resources of the relationships a subject holds
ObjectsOf(relationships) ==
    IF relationships.err # "" THEN relationships
    ELSE Ok([i \in 1..Len(relationships.value) |-> relationships.value[i].object])

\* C16, as stated: storing a tuple twice leaves the store in the same
\* observable state as storing it once: has_relationship, expand and
\* list_objects answer as they would on the store without the repeated rows
\* (expand lists the subject once, list_objects lists the resource once)
C16_IdempotentStore ==
    /\ last.op = "has_relationship"
       => last.res = StorageHasRelationship(StoredOnce(store, 1), now, last.object,
                                            last.relation, last.subject)
    /\ last.op = "expand"
       => last.res = FindDirectRelationships(StoredOnce(store, 1), now, last.resource,
                                             last.relation)
    /\ last.op = "list_objects"
       => last.res = ObjectsOf(GetRelationshipsForSubject(StoredOnce(store, 1), now,
                                                          last.subject))

\* the tuple has no active row in the store
Absent(st, tuple) ==
    ~\E i \in 1..Len(st) :
        RowOf(st[i], tuple.object, tuple.relation, tuple.subject) /\ st[i].is_active

\* no step deletes a row: every row stays in its place, active as before or
\* flipped to inactive
RowsKept ==
    /\ Len(store') >= Len(store)
    /\ \A i \in 1..Len(store) :
        \/ store'[i] = store[i]
        \/ store[i].is_active /\ store'[i] = [store[i] EXCEPT !.is_active = FALSE]

\* C17, as stated: add_relationship, remove_relationship and
\* cleanup_expired_relationships never delete a row, and remove_relationship
\* on a tuple that is absent or already inactive returns Ok and leaves the
\* store unchanged
C17_SoftDeleteRemoveAlwaysOk ==
    [][/\ RowsKept
       /\ \A tuple \in StoreTuples :
            (/\ last'.op = "remove_relationship"
             /\ Absent(store, tuple)
             /\ RemoveRelationshipOp(tuple))
            => (store' = store /\ last'.err = "")]_vars

\* C17: add_relationship, remove_relationship and
\* cleanup_expired_relationships never delete a row (removal and the expiry
\* sweep only flip is_active), and remove_relationship on a tuple that is
\* absent or already inactive leaves the store unchanged; it returns Ok when
\* the identifiers of resource and subject are UUIDs and an identifier error
\* otherwise
C17_SoftDeleteOnly ==
    [][/\ RowsKept
       /\ \A tuple \in StoreTuples :
            (/\ last'.op = "remove_relationship"
             /\ Absent(store, tuple)
             /\ RemoveRelationshipOp(tuple))
            => /\ store' = store
               /\ last'.rows_affected = 0
               /\ last'.err = IF UuidParseOk(tuple.object.id) /\ UuidParseOk(tuple.subject.id)
                              THEN "" ELSE "Uuid"]_vars

\* a removal that found nothing to flip returned Ok on a store that still
\* holds a row removed earlier
C17_Witness ==
    /\ last.op = "remove_relationship"
    /\ last.err = ""
    /\ last.rows_affected = 0
    /\ \E i \in 1..Len(store) : ~store[i].is_active

---------------------------------------------------------------------------
(* Properties of check: aggregation, ties, audit of failures *)

\* C18, as stated: whatever the winning effect, the reasons of the response
\* of a check that went through policy evaluation name every policy that
\* applied
C18_ReasonAggregation ==
    (/\ last.op = "check"
     /\ last.res.kind = "ok"
     /\ last.res.policy_evaluated)
    => \A i \in Applying(policies, last.req.context) :
           InSeq(Msg("Policy '{}' applied", policies[i].name), last.res.reasons)

\* C19, as stated: when several applying policies share the highest
\* priority, the final effect is that of the one created earliest, in
\* whatever order the policies are held in the policy list
C19_TieBreakByCreation ==
    (/\ last.op = "check"
     /\ last.res.policy_evaluated
     /\ ~LastPolicyDecision.error)
    => LET A == Applying(policies, last.req.context) IN
       A # {} =>
           \E i \in A :
               /\ policies[i].effect = LastPolicyDecision.decision
               /\ \A j \in A :
                   \/ policies[j].priority < policies[i].priority
                   \/ /\ policies[j].priority = policies[i].priority
                      /\ policies[i].created_at <= policies[j].created_at

\* C20, as stated: a check that ends in a validation error
\* (ContextValidation) or in an infrastructure or resolution error still
\* appends an audit entry that records the failed attempt (here on an engine
\* whose audit is enabled, for failures other than that of the audit write)
C20_FailedChecksAudited ==
    (/\ last.op = "check"
     /\ AuditEnabled(config)
     /\ last.res.kind = "err"
     /\ last.res.audit_calls = 0)
    => /\ Len(auditLog) = last.audit_before + 1
       /\ auditLog[Len(auditLog)].action = last.req.action

---------------------------------------------------------------------------
(* Properties of the relationship cache *)

\* the cache holds for (resource, relation) a list without the subject that
\* was cached at least cache_ttl_seconds ago
StaleMiss(ch, t, resource, relation, subject) ==
    /\ CacheKey(resource, relation) \in DOMAIN ch
    /\ ~InSeq(subject, ch[CacheKey(resource, relation)].subjects)
    /\ t - ch[CacheKey(resource, relation)].cached_at >= config.cache_ttl_seconds

\* C14: when an expand has cached a list without S and (R, rel, S) was added
\* afterwards without invalidating the cache, an expand(R, rel) issued once
\* cache_ttl_seconds have elapsed reads a list that contains S, returns that
\* list and caches it
C14_ExpandAfterTtl ==
    [][/\ \A r \in CacheRelations, s \in StoreSubjects :
            (/\ last'.op = "expand_read"
             /\ StaleMiss(cache, now, P1, r, s)
             /\ Holds(store, now, P1, r, s)
             /\ ExpandRead(P1, r))
            => \E call \in expanding' :
                   /\ call.resource = P1 /\ call.relation = r /\ call.read_at = now
                   /\ InSeq(s, call.subjects)
       /\ \A call \in expanding :
            ExpandReturn(call)
            => /\ last'.res = Ok(call.subjects)
               /\ cache'[CacheKey(call.resource, call.relation)].subjects = call.subjects]_vars

\* an expand issued one TTL after the miss was cached has read U1 from the
\* store while the cache still holds the list without U1
C14_Witness ==
    /\ last.op = "expand_read"
    /\ StaleMiss(cache, now, last.resource, last.relation, U1)
    /\ \E call \in expanding :
           /\ call.resource = last.resource /\ call.relation = last.relation
           /\ call.read_at = now
           /\ InSeq(U1, call.subjects)

\* C15, as stated: under every interleaving of expand, add_relationship,
\* remove_relationship and check, a check that answers a relationship
\* question from the cache uses a list that was read from the store no more
\* than cache_ttl_seconds earlier
C15_BoundedStaleness ==
    [][\A req \in EngineRequests :
          (/\ last'.op = "check"
           /\ IsSome(CacheLookup(config, cache, now, req.resource,
                                 GetRequiredRelations(req.action, req.resource)[1]))
           /\ Check(req))
          => now - readAt[CacheKey(req.resource,
                                   GetRequiredRelations(req.action, req.resource)[1])]
                 <= config.cache_ttl_seconds]_vars

---------------------------------------------------------------------------
(* Properties of evaluate_policies *)

\* the policy is active and each of its conditions evaluates to true
ConditionsHold(policy, ctx) ==
    /\ policy.is_active
    /\ \A k \in 1..Len(policy.conditions) :
           EvaluateCondition(policy.conditions[k], ctx) = "true"

\* the policies of the list, from position i on, that are active with every
\* condition true
RECURSIVE Contributing(_, _, _)
Contributing(pols, ctx, i) ==
    IF i > Len(pols) THEN <<>>
    ELSE IF ConditionsHold(pols[i], ctx) THEN <<pols[i]>> \o Contributing(pols, ctx, i + 1)
    ELSE Contributing(pols, ctx, i + 1)

\* the decision d of evaluate_policies is made of the policies of the list c
\* and of no other
MadeOf(d, c) ==
    /\ d.applied_policies = [j \in 1..Len(c) |-> c[j].id]
    /\ d.reasons = [j \in 1..Len(c) |-> Msg("Policy '{}' applied", c[j].name)]
    /\ IF c = <<>> THEN d.decision = Effect("Deny")
       ELSE \E j \in 1..Len(c) : d.decision = c[j].effect

\* C21: a policy contributes to the decision of evaluate_policies if and
\* only if it is active and every one of its conditions evaluates to true
\* for the context: the applied policies, the reasons and the final effect
\* are those of exactly these policies
C21_PolicyApplicability ==
    (last.op = "evaluate_policies" /\ ~last.res.error)
    => MadeOf(last.res, Contributing(policies, last.context, 1))

\* of a policy with two conditions, one true and one false, an inactive
\* policy without conditions and an active one without, the last alone applies
C21_Witness ==
    /\ last.op = "evaluate_policies"
    /\ \E i, j \in 1..Len(policies) :
           /\ policies[i] = PTwoConditions
           /\ EvaluateCondition(Cond("AfterHours"), last.context) = "true"
           /\ EvaluateCondition(Cond("RemoteAccess"), last.context) = "false"
           /\ policies[j] = PAllow50
    /\ last.res.applied_policies = <<PAllow50.id>>

---------------------------------------------------------------------------
(* Properties of check: the Conditional and AuditOnly effects *)

\* C22, as stated: when the winning effect is Conditional(subconds), check
\* returns Allow if all the sub-conditions of that policy hold for the
\* context and RequireApproval otherwise, whatever lower-priority policies
\* apply as well
C22_ConditionalEffect ==
    (/\ last.op = "check"
     /\ last.res.kind = "ok"
     /\ last.res.policy_evaluated
     /\ LastPolicyDecision.decision.kind = "Conditional")
    => IF \A k \in 1..Len(LastPolicyDecision.decision.conditions) :
              EvaluateCondition(LastPolicyDecision.decision.conditions[k],
                                last.req.context) = "true"
       THEN Returned("Allow")
       ELSE Returned("RequireApproval")

\* what resolve_relationships answers without a cache when no lookup fails:
\* the subject holds the relation on the resource, or its parent relation
ResolvesTrue(st, t, resource, relation, subject) ==
    \/ Holds(st, t, resource, relation, subject)
    \/ /\ IsSome(GetParentRelation(relation))
       /\ Holds(st, t, resource, Unwrap(GetParentRelation(relation)), subject)

\* the positions of the required relations that resolve to true
Resolving(st, t, req) ==
    {i \in 1..Len(GetRequiredRelations(req.action, req.resource)) :
        ResolvesTrue(st, t, req.resource,
                     GetRequiredRelations(req.action, req.resource)[i], req.subject)}

\* C23: when the winning effect is AuditOnly and no lookup fails, check
\* tries the required relations of (action, resource) in table order and
\* returns Allow with the reason citing the first one that resolves to true;
\* when none does, or the pair has no entry in the table, it returns Deny
C23_AuditOnlyResolution ==
    (/\ last.op = "check"
     /\ last.res.kind = "ok"
     /\ last.res.policy_evaluated
     /\ LastPolicyDecision.decision = Effect("AuditOnly"))
    => LET required == GetRequiredRelations(last.req.action, last.req.resource)
           R == Resolving(store, now, last.req) IN
       IF R = {}
       THEN /\ Returned("Deny") /\ ~last.res.allowed
            /\ last.res.reasons = <<Msg("No valid relationship found", "")>>
            /\ last.res.resolutions = Len(required)
       ELSE \E i \in R :
               /\ \A j \in R : i <= j
               /\ Returned("Allow") /\ last.res.allowed
               /\ last.res.reasons = <<Msg("Access granted via {} relationship",
                                           RelationToString(required[i]))>>
               /\ last.res.resolutions = i

\* the subject is attending nurse and care team member of the patient:
\* check stops at AttendingNurse, the third candidate of Read
C23_Witness ==
    /\ last.op = "check"
    /\ Resolving(store, now, last.req) = {3, 4}
    /\ Returned("Allow")
    /\ last.res.reasons = <<Msg("Access granted via {} relationship", "attending_nurse")>>
    /\ last.res.resolutions = 3

---------------------------------------------------------------------------
(* Properties of evaluate_policies: unmodelled conditions, independence of *)
(* the request                                                             *)

\* C24: every condition kind that evaluate_condition has no arm for
\* evaluates to true for every context, so that an active policy made only
\* of such conditions applies to every request
C24_UnmodelledConditionsFailOpen ==
    last.op = "evaluate_policies"
    => /\ \A kind \in UnmodelledKinds : EvaluateCondition(Cond(kind), last.context) = "true"
       /\ ~last.res.error
          => \A i \in 1..Len(policies) :
                (/\ policies[i].is_active
                 /\ policies[i].conditions # <<>>
                 /\ \A k \in 1..Len(policies[i].conditions) :
                        policies[i].conditions[k].kind \in UnmodelledKinds)
                => InSeq(policies[i].id, last.res.applied_policies)

\* a policy whose only condition is RequireRole, alone in the engine, applies
\* and grants Allow
C24_Witness ==
    /\ last.op = "evaluate_policies"
    /\ policies = <<PUnmodelled("RequireRole")>>
    /\ last.res.applied_policies = <<"RequireRole">>
    /\ last.res.decision = Effect("Allow")

\* C30: for a fixed policy set, two evaluate_policies calls with equal
\* context and different subject, action or resource return the same effect,
\* the same applied-policy list and the same requirements (or both fail)
C30_DecisionIndependentOfRequest ==
    (/\ last.op = "evaluate_policies"
     /\ IsSome(last.previous)
     /\ Unwrap(last.previous).context = last.context)
    => /\ last.res.error = Unwrap(last.previous).res.error
       /\ last.res.decision = Unwrap(last.previous).res.decision
       /\ last.res.applied_policies = Unwrap(last.previous).res.applied_policies
       /\ last.res.requirements = Unwrap(last.previous).res.requirements

\* a user reading a patient record and another user viewing a billing record
\* in the same context got the same two applied policies
C30_Witness ==
    /\ last.op = "evaluate_policies"
    /\ IsSome(last.previous)
    /\ Unwrap(last.previous).context = last.context
    /\ Unwrap(last.previous).subject = U1 /\ last.subject = U2
    /\ Unwrap(last.previous).action = "Read" /\ last.action = "ViewBilling"
    /\ Unwrap(last.previous).resource = P1 /\ last.resource = B1
    /\ Len(last.res.applied_policies) = 2
    /\ last.res.requirements # <<>>
    /\ last.res = Unwrap(last.previous).res

---------------------------------------------------------------------------
(* Properties of the relationship cache inside check *)

\* C25, as stated: with caching enabled, a relationship resolution inside
\* check that finds no fresh cache entry for (resource, relation) and
\* consults the store writes the result into the cache: after the check,
\* every required relation that was tried has a fresh entry, the one it was
\* answered from or the one written through
C25_WriteThroughOnMiss ==
    (/\ last.op = "check"
     /\ config.enable_caching
     /\ last.res.lookups >= 1)
    => \A i \in 1..last.res.resolutions :
           IsSome(CacheLookup(config, cache, now, last.req.resource,
                              GetRequiredRelations(last.req.action, last.req.resource)[i]))

\* resolve_relationships on the same input by an engine whose caching is disabled
Uncached ==
    ResolveRelationships([config EXCEPT !.enable_caching = FALSE], store, cache, now,
                         "none", last.resource, last.subject, last.relation,
                         last.visited, last.depth).res

\* C26, as stated: when the cache holds a fresh entry for (resource,
\* relation) that equals the store's current direct subject list,
\* resolve_relationships with caching enabled returns what it returns with
\* caching disabled (here: whenever that is true or false), for every
\* subject and every relation, those with a parent relation included
C26_CacheTransparency ==
    (/\ last.op = "resolve_relationships"
     /\ config.enable_caching
     /\ CacheLookup(config, cache, now, last.resource, last.relation)
            = Some(FindDirectRelationships(store, now, last.resource, last.relation).value)
     /\ Uncached \in {"true", "false"})
    => last.res.res = Uncached

---------------------------------------------------------------------------
(* Properties of relation names *)

\* C27, as stated: a tuple stored under relation r1 makes
\* has_relationship(R, r2, S) true only if r1 = r2, Custom relations
\* included: on a store that was only ever given tuples of Custom relations,
\* has_relationship is true for Custom relations alone, and no check is
\* allowed through the built-in relations
C27_RelationIdentity ==
    /\ (last.op = "has_relationship" /\ last.res = Ok(TRUE))
       => /\ last.relation \in CustomRelations
          /\ \E i \in 1..Len(store) : store[i].relation = last.relation.name
    /\ last.op = "check" => ~last.res.allowed

---------------------------------------------------------------------------
(* Properties of check with the built-in policy catalog *)

\* C28: with the built-in policy catalog no policy alone grants access: for
\* every request with a valid context and no declared emergency, a response
\* with allowed = true is an Allow obtained through relationship resolution
\* (some required relation resolved to true for the subject), at any time of
\* day and for any location
C28_CatalogGrantsThroughRelationshipsOnly ==
    (/\ last.op = "check"
     /\ policies = DefaultHealthcarePolicies
     /\ ValidContext(last.req.context)
     /\ ~IsEmergency(last.req.context)
     /\ last.res.kind = "ok"
     /\ last.res.allowed)
    => /\ Returned("Allow")
       /\ LastPolicyDecision.decision = Effect("AuditOnly")
       /\ last.res.resolutions >= 1
       /\ \E i \in Resolving(store, now, last.req) :
              last.res.reasons =
                  <<Msg("Access granted via {} relationship",
                        RelationToString(GetRequiredRelations(last.req.action,
                                                              last.req.resource)[i]))>>

\* on a Monday at 12:00, on site, a care team member of the patient is
\* allowed to read the record under the built-in catalog
C28_Witness ==
    /\ last.op = "check"
    /\ policies = DefaultHealthcarePolicies
    /\ last.req.context.timestamp = Noon
    /\ ~IsEmergency(last.req.context)
    /\ Returned("Allow") /\ last.res.allowed
    /\ last.res.reasons = <<Msg("Access granted via {} relationship", "care_team_member")>>

\* C29: with max_relation_depth >= 2 the resolution guards never fire: no
\* check returns MaxDepthExceeded or CircularDependency, for any request,
\* policy list and relationship store, because no parent chain is longer than
\* one hop and each candidate relation starts from an empty visited set
C29_GuardsNeverFire ==
    (/\ last.op = "check"
     /\ config.max_relation_depth >= 2
     /\ last.res.kind = "err")
    => last.res.error \notin {"MaxDepthExceeded", "CircularDependency"}

\* with a bound of two levels a Read by a care team member walks
\* PrimaryPhysician, ConsultingPhysician and its parent, AttendingNurse and
\* CareTeamMember (five storage lookups) and is allowed
C29_Witness ==
    /\ last.op = "check"
    /\ config.max_relation_depth = 2
    /\ Returned("Allow")
    /\ last.res.resolutions = 4
    /\ last.res.lookups = 5

====
